---- MODULE Spec2Model ----
(***************************************************************************)
(* Model of analyze_transfers.py: load an .npz container of simulation     *)
(* metrics, rebuild the record, count transfers per node, down-sample the  *)
(* large series and render a three-panel figure to an image file.          *)
(*                                                                         *)
(* Strings that the code inspects (command-line strings, file names, node  *)
(* ids) are sequences of Unicode code points, so that Python's string      *)
(* order is the lexicographic order on them and a character class is a set *)
(* of code points.  Floats are exact rationals [num, den].  Arrays are     *)
(* 1-based sequences: Python index i is position i + 1.                    *)
(***************************************************************************)
EXTENDS Integers, Sequences, FiniteSets, TLC

VARIABLES
    argv,         \* the command line after the script name: a sequence of strings
    fs,           \* the file system: existing file name -> container stored there
    output,       \* output path -> what saving there meets (unlisted: writable)
    pc,           \* position of main: "start", "loaded", "exited"
    data,         \* the record returned by load_metrics (NoData before / on failure)
    image,        \* the file this run left at an output path (NoImage while none)
    locals,       \* the statistics locals of create_analysis_plot when it ended
    exit_status,  \* the process exit status (Running until main ends)
    log           \* messages passed to logging.error, by kind

vars == <<argv, fs, output, pc, data, image, locals, exit_status, log>>

----------------------------------------------------------------------------
(* Bounds of the explored inputs *)

MaxTransfers == 3
MaxSeries == 2
MaxStride == 2

(* Program constants *)

SecondsPerDay == 86400
SecondsPerYear == 31557600
OverlayTarget == 2000
StatsTarget == 1000

(* Placeholders of the state before main produced the value *)

NoData == [kind |-> "NoData"]
NoImage == [kind |-> "NoImage"]

(* What a save that failed while writing can leave at the path *)
Truncated(path) == [kind |-> "Truncated", path |-> path]

(* The image file of a figure saved at a path *)
Image(path, fig) == [kind |-> "Image", path |-> path] @@ fig
NoLocals == [kind |-> "NoLocals"]
Running == -1

----------------------------------------------------------------------------
(* Generic helpers *)

(* The printable ASCII characters in code-point order, from the space; the
   empty string holds the place of the backquote (code point 96) *)
Ascii ==
    <<" ", "!", "\"", "#", "$", "%", "&", "'", "(", ")", "*", "+", ",", "-",
      ".", "/", "0", "1", "2", "3", "4", "5", "6", "7", "8", "9", ":", ";",
      "<", "=", ">", "?", "@", "A", "B", "C", "D", "E", "F", "G", "H", "I",
      "J", "K", "L", "M", "N", "O", "P", "Q", "R", "S", "T", "U", "V", "W",
      "X", "Y", "Z", "[", "\\", "]", "^", "_", "", "a", "b", "c", "d", "e",
      "f", "g", "h", "i", "j", "k", "l", "m", "n", "o", "p", "q", "r", "s",
      "t", "u", "v", "w", "x", "y", "z", "{", "|", "}", "~">>

(* ord(c) of a printable ASCII character or of the newline *)
Ord(c) ==
    IF c = "\n" THEN 10
    ELSE 31 + CHOOSE i \in 1..Len(Ascii) : Ascii[i] = c

(* A string literal, written character by character, as its code points *)
Str(chars) == [i \in 1..Len(chars) |-> Ord(chars[i])]

(* The characters the parser looks for *)
Dash == Ord("-")

EqualsSign == Ord("=")

Point == Ord(".")

Space == Ord(" ")

Newline == Ord("\n")

Max2(a, b) == IF a >= b THEN a ELSE b

Abs(a) == IF a < 0 THEN -a ELSE a

RECURSIVE Gcd(_, _)
Gcd(a, b) == IF b = 0 THEN a ELSE Gcd(b, a % b)

(* A float as an exact rational in lowest terms with a positive denominator *)
Frac(n, d) ==
    LET g == Gcd(Abs(n), Abs(d))
        s == IF d < 0 THEN -1 ELSE 1
    IN  [num |-> (s * n) \div g, den |-> (s * d) \div g]

(* float(x) / int(x) of a stored integer sample *)
Float(n) == [num |-> n, den |-> 1]

(* What a call can end in: a returned value, a raised exception, or
   sys.exit (SystemExit, which "except Exception" does not catch) *)
Return(v) == [kind |-> "return", value |-> v]

Raise(e) == [kind |-> "raise", exc |-> e]

SysExit(s, msgs) == [kind |-> "exit", status |-> s, log |-> msgs]

IsExc(r) == "exc" \in DOMAIN r

(* Python's x / y on numbers: ZeroDivisionError on a zero divisor *)
TrueDiv(x, y) ==
    IF y.num = 0 THEN [exc |-> "ZeroDivisionError"]
    ELSE Frac(x.num * y.den, x.den * y.num)

(* numpy's elementwise u / c: no exception, inf or nan on a zero divisor *)
NaN == [num |-> 0, den |-> 0]

NpDivide(u, c) == IF c = 0 THEN NaN ELSE Frac(u, c)

RAdd(x, y) ==
    IF x.den = 0 \/ y.den = 0 THEN NaN
    ELSE Frac(x.num * y.den + y.num * x.den, x.den * y.den)

(* Sum of f[lo..hi], by halves *)
RECURSIVE SumRange(_, _, _)
SumRange(f, lo, hi) ==
    IF lo > hi THEN Float(0)
    ELSE IF lo = hi THEN f[lo]
    ELSE LET mid == (lo + hi) \div 2
         IN  RAdd(SumRange(f, lo, mid), SumRange(f, mid + 1, hi))

(* np.mean of a non-empty array of rationals *)
NpMean(f) ==
    LET s == SumRange(f, 1, Len(f))
    IN  IF s.den = 0 THEN NaN ELSE Frac(s.num, s.den * Len(f))

(* np.max of a non-empty integer array *)
RECURSIVE MaxRange(_, _, _)
MaxRange(f, lo, hi) ==
    IF lo = hi THEN f[lo]
    ELSE LET mid == (lo + hi) \div 2
         IN  Max2(MaxRange(f, lo, mid), MaxRange(f, mid + 1, hi))

NpMax(f) == MaxRange(f, 1, Len(f))

(* s[::k] for k >= 1: the samples at Python indices 0, k, 2k, ... *)
Stride(s, k) == [j \in 1..((Len(s) + k - 1) \div k) |-> s[(j - 1) * k + 1]]

(* a + b on two index-aligned arrays *)
NpAdd(a, b) == [j \in 1..Len(a) |-> a[j] + b[j]]

----------------------------------------------------------------------------
(* File names and the container format *)

NPZ == Str(<<".", "n", "p", "z">>)

EndsWith(s, suf) ==
    /\ Len(s) >= Len(suf)
    /\ SubSeq(s, Len(s) - Len(suf) + 1, Len(s)) = suf

MetadataKeys ==
    {"metadata_parallel_enabled", "metadata_total_nodes",
     "metadata_simulation_end_time", "metadata_data_loss_events",
     "metadata_nodes_with_data_loss"}

TransferKeys ==
    {"transfer_times", "transfer_types", "transfer_durations",
     "uploaders", "downloaders"}

SimKeys == {"sim_times", "sim_uploads", "sim_downloads"}

BwKeys ==
    {"bw_times", "bw_upload_used", "bw_upload_capacity",
     "bw_download_used", "bw_download_capacity"}

OptionalKeys == SimKeys \cup BwKeys

AllKeys == MetadataKeys \cup TransferKeys \cup OptionalKeys

(* `key in data` on an NpzFile *)
Has(arrays, key) == key \in DOMAIN arrays

(* np.load(name): the handle of the file, FileNotFoundError when absent *)
NpLoad(files, name) ==
    IF name \in DOMAIN files
    THEN Return([file |-> name, arrays |-> files[name]])
    ELSE Raise("FileNotFoundError")

(* bool(x) of a numeric indicator *)
Bool(x) == x # 0

(* The list built by the loop of process_data over transfer_times *)
TransferCompletions(a) ==
    [i \in 1..Len(a["transfer_times"]) |->
        <<Float(a["transfer_times"][i]),
          a["transfer_types"][i],
          Float(a["transfer_durations"][i]),
          a["uploaders"][i],
          a["downloaders"][i]>>]

process_data(handle) ==
    LET a == handle.arrays IN
    IF ~(MetadataKeys \subseteq DOMAIN a) THEN Raise("KeyError")
    ELSE IF /\ Has(a, "transfer_times")
            /\ Len(a["transfer_times"]) > 0
            /\ ~(TransferKeys \subseteq DOMAIN a)
    THEN Raise("KeyError")
    ELSE Return(
        [metadata |->
            [parallel_enabled |-> Bool(a["metadata_parallel_enabled"][1]),
             total_nodes |-> a["metadata_total_nodes"][1],
             simulation_end_time |-> Float(a["metadata_simulation_end_time"][1]),
             data_loss_events |-> a["metadata_data_loss_events"][1],
             nodes_with_data_loss |-> a["metadata_nodes_with_data_loss"][1]],
         metrics |->
            [transfer_completions |->
                IF Has(a, "transfer_times") THEN TransferCompletions(a) ELSE <<>>,
             bandwidth_snapshots |-> "use_raw_data",
             simultaneous_transfers |-> "use_raw_data"],
         raw_data |-> handle])

(* Mutation: the retry keeps the name as given *)
RetryName_Unchanged(name) == name

(* The name of the second attempt of load_metrics *)
RetryName(name) == IF ~EndsWith(name, NPZ) THEN name \o NPZ ELSE name

(* Mutation: the not-found branch logs and exits with status 0 *)
NotFound_ExitZero(name) == SysExit(0, <<[kind |-> "NotFound", file |-> name]>>)

(* What load_metrics does when the second attempt finds no file *)
NotFound(name) == SysExit(1, <<[kind |-> "NotFound", file |-> name]>>)

(* One attempt: FileNotFoundError is the only exception the handler catches *)
Attempt(files, name) ==
    LET h == NpLoad(files, name)
    IN  IF h.kind = "raise" THEN h ELSE process_data(h.value)

load_metrics(files, name) ==
    LET first == Attempt(files, name) IN
    IF ~(first.kind = "raise" /\ first.exc = "FileNotFoundError") THEN first
    ELSE LET second == Attempt(files, RetryName(name)) IN
         IF ~(second.kind = "raise" /\ second.exc = "FileNotFoundError") THEN second
         ELSE NotFound(RetryName(name))

----------------------------------------------------------------------------
(* Aggregation *)

(* Python's < on strings: lexicographic on code points, a proper prefix first *)
StrLess(a, b) ==
    \E i \in 1..Len(b) :
        /\ \A j \in 1..(i - 1) : j <= Len(a) /\ a[j] = b[j]
        /\ \/ i = Len(a) + 1
           \/ i <= Len(a) /\ a[i] < b[i]

(* sorted(S) of a set of strings *)
RECURSIVE Sorted(_)
Sorted(S) ==
    IF S = {} THEN <<>>
    ELSE LET m == CHOOSE x \in S : \A y \in S \ {x} : StrLess(x, y)
         IN  <<m>> \o Sorted(S \ {m})

(* defaultdict(int)() *)
EmptyDict == [x \in {} |-> 0]

(* d[k] += 1 on a defaultdict(int) *)
Increment(d, k) ==
    IF k \in DOMAIN d THEN [d EXCEPT ![k] = @ + 1]
    ELSE [x \in DOMAIN d \cup {k} |-> IF x = k THEN 1 ELSE d[x]]

(* d[k] on a defaultdict(int): 0 for an unseen key *)
DictGet(d, k) == IF k \in DOMAIN d THEN d[k] ELSE 0

(* The counting loop over transfers[i..], one dict per role (field 4: the
   uploader, field 5: the downloader) *)
RECURSIVE CountField(_, _, _, _)
CountField(transfers, field, i, counts) ==
    IF i > Len(transfers) THEN counts
    ELSE CountField(transfers, field, i + 1,
                    Increment(counts, transfers[i][field]))

analyze_transfers_by_node(d) ==
    LET transfers == d.metrics.transfer_completions
    IN  [upload_counts |-> CountField(transfers, 4, 1, EmptyDict),
         download_counts |-> CountField(transfers, 5, 1, EmptyDict)]

(* Mutation: the node list is built from the uploaders alone *)
PanelNodes_UploadersOnly(upload_counts, download_counts) ==
    Sorted(DOMAIN upload_counts)

(* nodes of panel 2 *)
PanelNodes(upload_counts, download_counts) ==
    Sorted(DOMAIN upload_counts \cup DOMAIN download_counts)

(* The three arrays panel 2 draws *)
PerNode(d) ==
    LET c == analyze_transfers_by_node(d)
        nodes == PanelNodes(c.upload_counts, c.download_counts)
    IN  [nodes |-> nodes,
         uploads |-> [i \in 1..Len(nodes) |-> DictGet(c.upload_counts, nodes[i])],
         downloads |-> [i \in 1..Len(nodes) |-> DictGet(c.download_counts, nodes[i])]]

(* Mutation: the stride rounds up *)
sample_step_RoundUp(n, target) == Max2(1, (n + target - 1) \div target)

(* The down-sampling stride for a series of length n and a target count *)
sample_step(n, target) == Max2(1, n \div target)

(* Derived scalars *)
sim_time_years(end_time) == TrueDiv(end_time, Float(SecondsPerYear))

(* Mutation: the average is taken without the total_nodes > 0 guard *)
avg_transfers_per_node_Unguarded(total_transfers, total_nodes) ==
    TrueDiv(Float(total_transfers), Float(total_nodes))

avg_transfers_per_node(total_transfers, total_nodes) ==
    IF total_nodes > 0
    THEN TrueDiv(Float(total_transfers), Float(total_nodes))
    ELSE Float(0)

transfers_per_year(total_transfers, years) ==
    IF years.num > 0 THEN TrueDiv(Float(total_transfers), years) ELSE Float(0)

(* np.maximum(capacity, 1) *)
FloorCapacity(capacity) == [j \in 1..Len(capacity) |-> Max2(capacity[j], 1)]

(* np.mean(used / np.maximum(capacity, 1)) * 100 *)
Utilization(used, capacity) ==
    LET c == FloorCapacity(capacity)
        m == NpMean([j \in 1..Len(used) |-> NpDivide(used[j], c[j])])
    IN  IF m.den = 0 THEN NaN ELSE Frac(m.num * 100, m.den)

(* The guard of the concurrency overlay and of the concurrency statistics *)
HasConcurrency(d) ==
    /\ d.metadata.parallel_enabled
    /\ Has(d.raw_data.arrays, "sim_times")
    /\ Len(d.raw_data.arrays["sim_times"]) > 0

(* total_concurrent / concurrent_data for a target count *)
Concurrent(raw, target) ==
    LET k == sample_step(Len(raw["sim_times"]), target)
    IN  NpAdd(Stride(raw["sim_uploads"], k), Stride(raw["sim_downloads"], k))

----------------------------------------------------------------------------
(* Rendering *)

(* Panel 1: nothing is drawn for an empty transfer list *)
Panel1(d) ==
    LET transfers == d.metrics.transfer_completions
        raw == d.raw_data.arrays
        total_transfers == Len(transfers)
    IN  IF transfers = <<>> THEN [drawn |-> FALSE, overlay |-> [drawn |-> FALSE]]
        ELSE
          LET base == [drawn |-> TRUE,
                       x |-> [i \in 1..Len(transfers) |->
                                TrueDiv(transfers[i][1], Float(SecondsPerDay))],
                       y |-> [i \in 1..Len(transfers) |-> i]]
          IN  IF HasConcurrency(d)
              THEN LET sample == sample_step(Len(raw["sim_times"]), OverlayTarget)
                       sim_times == Stride(raw["sim_times"], sample)
                       total_concurrent == Concurrent(raw, OverlayTarget)
                   IN  base @@
                       [overlay |->
                           [drawn |-> TRUE,
                            x |-> [j \in 1..Len(sim_times) |->
                                     Frac(sim_times[j], SecondsPerDay)],
                            y |-> total_concurrent],
                        title |->
                           [total |-> total_transfers,
                            has_max |-> TRUE,
                            max_concurrent |->
                               IF Len(total_concurrent) > 0
                               THEN NpMax(total_concurrent) ELSE 0]]
              ELSE base @@
                   [overlay |-> [drawn |-> FALSE],
                    title |-> [total |-> total_transfers, has_max |-> FALSE]]

(* The concurrent_stats string: empty, or its two lines *)
ConcurrentStats(d) ==
    IF HasConcurrency(d)
    THEN LET concurrent_data == Concurrent(d.raw_data.arrays, StatsTarget)
         IN  [max_concurrent |->
                 IF Len(concurrent_data) > 0 THEN NpMax(concurrent_data) ELSE 0,
              avg_concurrent |->
                 IF Len(concurrent_data) > 0
                 THEN NpMean([j \in 1..Len(concurrent_data) |->
                                 Float(concurrent_data[j])])
                 ELSE Float(0)]
    ELSE [empty |-> TRUE]

(* The lines of stats_text, by label *)
StatsText(d, years, avg_per_node, per_year, concurrent_stats) ==
    [total_transfers |-> Len(d.metrics.transfer_completions),
     simulation_time |-> years,
     total_nodes |-> d.metadata.total_nodes,
     avg_transfers_per_node |-> avg_per_node,
     transfers_per_year |-> per_year,
     data_loss_events |-> d.metadata.data_loss_events]

(* The bandwidth statistics block *)
HasBandwidth(d) ==
    /\ Has(d.raw_data.arrays, "bw_times")
    /\ Len(d.raw_data.arrays["bw_times"]) > 0

BandwidthStats(d) ==
    IF HasBandwidth(d)
    THEN LET raw == d.raw_data.arrays
             k == sample_step(Len(raw["bw_times"]), StatsTarget)
         IN  [avg_upload_util |->
                 Utilization(Stride(raw["bw_upload_used"], k),
                             Stride(raw["bw_upload_capacity"], k)),
              avg_download_util |->
                 Utilization(Stride(raw["bw_download_used"], k),
                             Stride(raw["bw_download_capacity"], k))]
    ELSE [avg_upload_util |-> Float(0), avg_download_util |-> Float(0)]

(* Python values of the namespace: a string, or a list *)
PyStr(s) == [type |-> "str", value |-> s]

PyList(l) == [type |-> "list", value |-> l]

(* plt.savefig(filepath): the figure becomes the image file at filepath, or
   the save fails.  Opening the path fails with FileNotFoundError when its
   directory does not exist and with PermissionError when it may not be
   written: no file is created or changed by a failed open.  A save that
   fails while writing (OSError, the device is full) fails after the file
   was opened; the code removes nothing, so what is left at the path is the
   backend's doing: no file ("full_removed") or a truncated one
   ("full_truncated").  A value that is not a string names no file; a path
   the state does not list is writable. *)
SaveFig(fig, filepath, outs) ==
    IF filepath.type # "str"
    THEN [kind |-> "raise", exc |-> "TypeError", file |-> NoImage]
    ELSE LET out == IF filepath.value \in DOMAIN outs
                    THEN outs[filepath.value] ELSE "writable" IN
         CASE out = "writable" ->
                [kind |-> "return", exc |-> "",
                 file |-> Image(filepath.value, fig)]
           [] out = "missing_dir" ->
                [kind |-> "raise", exc |-> "FileNotFoundError", file |-> NoImage]
           [] out = "denied" ->
                [kind |-> "raise", exc |-> "PermissionError", file |-> NoImage]
           [] out = "full_removed" ->
                [kind |-> "raise", exc |-> "OSError", file |-> NoImage]
           [] out = "full_truncated" ->
                [kind |-> "raise", exc |-> "OSError",
                 file |-> Truncated(filepath.value)]

create_analysis_plot(d, filepath, outs) ==
    LET transfers == d.metrics.transfer_completions
        total_transfers == Len(transfers)
        total_nodes == d.metadata.total_nodes
        years == sim_time_years(d.metadata.simulation_end_time)
        raw == d.raw_data.arrays
        is_parallel == d.metadata.parallel_enabled
        mode_name == IF is_parallel THEN "Parallel" ELSE "Single"
    IN  IF /\ transfers # <<>>
           /\ HasConcurrency(d)
           /\ ~({"sim_uploads", "sim_downloads"} \subseteq DOMAIN raw)
        THEN Raise("KeyError")
        ELSE
        LET per_node == avg_transfers_per_node(total_transfers, total_nodes)
            per_year == transfers_per_year(total_transfers, years)
        IN  IF IsExc(per_node) \/ IsExc(per_year)
            THEN Raise("ZeroDivisionError")
            ELSE IF HasBandwidth(d) /\ ~(BwKeys \subseteq DOMAIN raw)
            THEN Raise("KeyError")
            ELSE IF /\ HasConcurrency(d)
                    /\ ~({"sim_uploads", "sim_downloads"} \subseteq DOMAIN raw)
            THEN Raise("KeyError")
            ELSE
            LET bw == BandwidthStats(d)
                concurrent_stats == ConcurrentStats(d)
                fig == [suptitle |-> [mode_name |-> mode_name, years |-> years],
                        panel1 |-> Panel1(d),
                        panel2 |-> PerNode(d),
                        panel3 |-> StatsText(d, years, per_node, per_year,
                                             concurrent_stats)]
                saved == SaveFig(fig, filepath, outs)
            IN  [kind |-> saved.kind,
                 exc |-> saved.exc,
                 image |-> saved.file,
                 locals |-> [avg_transfers_per_node |-> per_node,
                             transfers_per_year |-> per_year,
                             avg_upload_util |-> bw.avg_upload_util,
                             avg_download_util |-> bw.avg_download_util,
                             concurrent_stats |-> concurrent_stats]]

----------------------------------------------------------------------------
(* main *)

(* Mutation: the handlers log the cause and let main return *)
HandleException_NoExit(exc, name) ==
    [status |-> 0,
     log |-> IF exc = "FileNotFoundError"
             THEN <<[kind |-> "NotFound", file |-> name],
                    [kind |-> "RunSimulationFirst"]>>
             ELSE <<[kind |-> "Unexpected", exc |-> exc]>>]

(* The two except clauses of main: log the cause (two messages for
   FileNotFoundError, one for any other Exception), sys.exit(1) *)
HandleException(exc, name) ==
    [status |-> 1,
     log |-> IF exc = "FileNotFoundError"
             THEN <<[kind |-> "NotFound", file |-> name],
                    [kind |-> "RunSimulationFirst"]>>
             ELSE <<[kind |-> "Unexpected", exc |-> exc]>>]

(* The parser main builds: the positional `filename`, the option
   --plot-name taking one value (default "plot.png"), and the help option
   that argparse adds by itself.  Command-line strings are sequences of
   characters. *)
HelpShort == Str(<<"-", "h">>)

HelpLong == Str(<<"-", "-", "h", "e", "l", "p">>)

PlotNameOption == Str(<<"-", "-", "p", "l", "o", "t", "-", "n", "a", "m", "e">>)

DefaultPlotName == Str(<<"p", "l", "o", "t", ".", "p", "n", "g">>)

DoubleDash == Str(<<"-", "-">>)

HelpOptions == {HelpShort, HelpLong}

KnownOptions == HelpOptions \cup {PlotNameOption}

ActionOf(option_string) ==
    IF option_string \in HelpOptions THEN "help" ELSE "plot_name"

StartsWith(s, prefix) ==
    /\ Len(s) >= Len(prefix)
    /\ SubSeq(s, 1, Len(prefix)) = prefix

(* s.split("=", 1): the position of the first "=", 0 when there is none *)
EqualsAt(s) ==
    IF \E i \in 1..Len(s) : s[i] = EqualsSign
    THEN CHOOSE i \in 1..Len(s) : s[i] = EqualsSign /\ \A j \in 1..(i - 1) : s[j] # EqualsSign
    ELSE 0

BeforeEquals(s) == SubSeq(s, 1, EqualsAt(s) - 1)

AfterEquals(s) == SubSeq(s, EqualsAt(s) + 1, Len(s))

(* The code points of the digit zero of every Unicode decimal-digit block:
   the pattern's \d matches the ten digits of each of them *)
DigitZeros ==
    {48, 1632, 1776, 1984, 2406, 2534, 2662, 2790, 2918, 3046, 3174, 3302,
     3430, 3558, 3664, 3792, 3872, 4160, 4240, 6112, 6160, 6470, 6608,
     6784, 6800, 6992, 7088, 7232, 7248, 42528, 43216, 43264, 43472, 43504,
     43600, 44016, 65296, 66720, 68912, 69734, 69872, 69942, 70096, 70384,
     70736, 70864, 71248, 71360, 71472, 71904, 72016, 72784, 73040, 73120,
     92768, 92864, 93008, 120782, 120792, 120802, 120812, 120822, 123200,
     123632, 125264, 130032}

Digits == UNION {z..(z + 9) : z \in DigitZeros}

AllDigits(s) == \A i \in 1..Len(s) : s[i] \in Digits

(* The whole of s is -digits, or -digits.digits with at least one digit
   after the point *)
NegativeNumberBody(s) ==
    /\ Len(s) >= 2
    /\ s[1] = Dash
    /\ \/ AllDigits(Tail(s))
       \/ \E k \in 2..(Len(s) - 1) :
            /\ s[k] = Point
            /\ AllDigits(SubSeq(s, 2, k - 1))
            /\ AllDigits(SubSeq(s, k + 1, Len(s)))

(* argparse's negative-number pattern '^-\d+$|^-\d*\.\d+$' under re.match:
   the "$" matches at the end of the string and also just before a newline
   that ends it *)
NegativeNumber(s) ==
    \/ NegativeNumberBody(s)
    \/ /\ Len(s) >= 1
       /\ s[Len(s)] = Newline
       /\ NegativeNumberBody(SubSeq(s, 1, Len(s) - 1))

(* The argument written in the same string as its option, if any *)
NoExplicit == [given |-> FALSE, arg |-> <<>>]

Explicit(a) == [given |-> TRUE, arg |-> a]

(* How a command-line string is read: an argument ("A"), an option ("O",
   with action "unknown" when the parser has no such option), or an error *)
Argument ==
    [class |-> "A", action |-> "", option_string |-> <<>>, explicit |-> NoExplicit]

OptionTuple(action, option_string, explicit) ==
    [class |-> "O", action |-> action, option_string |-> option_string,
     explicit |-> explicit]

Ambiguous ==
    [class |-> "error", action |-> "", option_string |-> <<>>,
     explicit |-> NoExplicit]

(* The options a string can abbreviate: a string starting with "--" matches
   every option it is a prefix of (up to its "="); a string starting with a
   single "-" matches the one-letter option of its first two characters, the
   rest being its argument, and every option it is a prefix of *)
get_option_tuples(s) ==
    IF s[2] = Dash
    THEN LET prefix == IF EqualsAt(s) > 0 THEN BeforeEquals(s) ELSE s
             explicit == IF EqualsAt(s) > 0 THEN Explicit(AfterEquals(s))
                         ELSE NoExplicit
         IN  {OptionTuple(ActionOf(o), o, explicit) :
                 o \in {k \in KnownOptions : StartsWith(k, prefix)}}
    ELSE {OptionTuple(ActionOf(o), o, Explicit(SubSeq(s, 3, Len(s)))) :
             o \in {k \in KnownOptions : k = SubSeq(s, 1, 2)}}
         \cup {OptionTuple(ActionOf(o), o, NoExplicit) :
                 o \in {k \in KnownOptions :
                          k # SubSeq(s, 1, 2) /\ StartsWith(k, s)}}

parse_optional(s) ==
    IF s = <<>> THEN Argument
    ELSE IF s[1] # Dash THEN Argument
    ELSE IF s \in KnownOptions THEN OptionTuple(ActionOf(s), s, NoExplicit)
    ELSE IF Len(s) = 1 THEN Argument
    ELSE IF EqualsAt(s) > 0 /\ BeforeEquals(s) \in KnownOptions
    THEN OptionTuple(ActionOf(BeforeEquals(s)), BeforeEquals(s),
                     Explicit(AfterEquals(s)))
    ELSE LET option_tuples == get_option_tuples(s) IN
         IF Cardinality(option_tuples) > 1 THEN Ambiguous
         ELSE IF Cardinality(option_tuples) = 1
         THEN CHOOSE t \in option_tuples : TRUE
         ELSE IF NegativeNumber(s) THEN Argument
         ELSE IF \E i \in 1..Len(s) : s[i] = Space THEN Argument
         ELSE OptionTuple("unknown", s, NoExplicit)

(* The position of the first "--", 0 when there is none *)
FirstDoubleDash(line) ==
    IF \E i \in 1..Len(line) : line[i] = DoubleDash
    THEN CHOOSE i \in 1..Len(line) :
            line[i] = DoubleDash /\ \A j \in 1..(i - 1) : line[j] # DoubleDash
    ELSE 0

(* arg_strings_pattern with the option tuples: the first "--" is "-" and
   every string after it is an argument *)
Classify(line) ==
    LET dd == FirstDoubleDash(line) IN
    [i \in 1..Len(line) |->
        IF dd > 0 /\ i = dd THEN [Argument EXCEPT !.class = "-"]
        ELSE IF dd > 0 /\ i > dd THEN Argument
        ELSE parse_optional(line[i])]

ClassAt(C, i) == IF i \in 1..Len(C) THEN C[i].class ELSE "end"

RECURSIVE Dashes(_, _)
Dashes(C, i) == IF ClassAt(C, i) = "-" THEN 1 + Dashes(C, i + 1) ELSE 0

(* The number of strings from position i that the positional takes: the
   match of -*A-* at the start of the rest of the pattern *)
consume_positionals(C, i, pending) ==
    IF ~pending THEN 0
    ELSE LET lead == Dashes(C, i) IN
         IF ClassAt(C, i + lead) = "A"
         THEN lead + 1 + Dashes(C, i + lead + 1)
         ELSE 0

RECURSIVE RemoveFirst(_, _)
RemoveFirst(q, x) ==
    IF q = <<>> THEN <<>>
    ELSE IF Head(q) = x THEN Tail(q)
    ELSE <<Head(q)>> \o RemoveFirst(Tail(q), x)

(* The value of a single-argument action: its strings without the first
   "--"; one string is the value, no string leaves the empty list *)
get_values(arg_strings) ==
    LET rest == RemoveFirst(arg_strings, DoubleDash)
    IN  IF Len(rest) = 1 THEN PyStr(rest[1]) ELSE PyList(rest)

(* One-letter options written in one string after a one-letter option that
   takes no argument: each letter must be an option of the parser *)
RECURSIVE ShortFlags(_)
ShortFlags(explicit_arg) ==
    IF <<Dash, explicit_arg[1]>> \notin KnownOptions THEN FALSE
    ELSE IF Len(explicit_arg) = 1 THEN TRUE
    ELSE ShortFlags(Tail(explicit_arg))

Namespace == [filename |-> <<>>, seen |-> FALSE,
              plot_name |-> PyStr(DefaultPlotName), extras |-> FALSE]

RECURSIVE parse_known_args(_, _, _, _)
RECURSIVE consume_optional(_, _, _, _)

(* The option at position i: an unknown option is set aside; the help action
   prints the help text and exits 0; --plot-name takes the argument written
   with it or the next string when that is an argument; anything else is an
   error *)
consume_optional(line, C, i, ns) ==
    LET t == C[i] IN
    IF t.action = "unknown"
    THEN parse_known_args(line, C, i + 1, [ns EXCEPT !.extras = TRUE])
    ELSE IF t.explicit.given
    THEN IF t.action = "help"
         THEN IF /\ t.option_string = HelpShort
                 /\ t.explicit.arg # <<>>
                 /\ ShortFlags(t.explicit.arg)
              THEN SysExit(0, <<>>)
              ELSE SysExit(2, <<>>)
         ELSE parse_known_args(line, C, i + 1,
                  [ns EXCEPT !.plot_name = get_values(<<t.explicit.arg>>)])
    ELSE IF t.action = "help" THEN SysExit(0, <<>>)
    ELSE IF ClassAt(C, i + 1) = "A"
    THEN parse_known_args(line, C, i + 2,
             [ns EXCEPT !.plot_name = get_values(<<line[i + 1]>>)])
    ELSE SysExit(2, <<>>)

(* The loop over the command line from position i: arguments before the
   next option go to the positional, the rest is set aside; at the end a
   missing positional or anything set aside is an error *)
parse_known_args(line, C, i, ns) ==
    LET options == {j \in i..Len(line) : C[j].class = "O"}
        take == consume_positionals(C, i, ~ns.seen)
        taken == [ns EXCEPT
                    !.filename = get_values(SubSeq(line, i, i + take - 1)).value,
                    !.seen = TRUE]
    IN  IF options # {}
        THEN LET next == CHOOSE j \in options : \A k \in options : j <= k IN
             IF i # next /\ take > 0
             THEN parse_known_args(line, C, i + take, taken)
             ELSE consume_optional(line, C, next,
                      [ns EXCEPT !.extras = @ \/ i # next])
        ELSE LET final == IF take > 0 THEN taken ELSE ns IN
             IF ~final.seen THEN SysExit(2, <<>>)
             ELSE IF final.extras \/ i + take <= Len(line) THEN SysExit(2, <<>>)
             ELSE Return([filename |-> final.filename,
                          plot_name |-> final.plot_name])

(* parser.parse_args(): the namespace, or the exit of the parser: status 0
   after the help text, status 2 after a usage error (both written by
   argparse itself, nothing goes through logging.error) *)
ParseArgs(line) ==
    IF \E i \in 1..Len(line) : Classify(line)[i].class = "error"
    THEN SysExit(2, <<>>)
    ELSE parse_known_args(line, Classify(line), 1, Namespace)

(* args.filename; the empty string stands for it while there is none *)
filename ==
    IF ParseArgs(argv).kind = "return" THEN ParseArgs(argv).value.filename
    ELSE <<>>

(* args.plot_name; the default stands for it while there is none *)
plot_name ==
    IF ParseArgs(argv).kind = "return" THEN ParseArgs(argv).value.plot_name
    ELSE PyStr(DefaultPlotName)

(* The status of a run of main that reaches its last line *)
NormalExit == 0

Exit(status, msgs) ==
    /\ pc' = "exited"
    /\ exit_status' = status
    /\ log' = msgs

(* main up to the end of load_metrics: the command line, the argument check
   and the load *)
MainLoad ==
    /\ pc = "start"
    /\ IF ParseArgs(argv).kind = "exit"
       THEN /\ Exit(ParseArgs(argv).status, ParseArgs(argv).log)
            /\ UNCHANGED data
       ELSE IF filename = <<>>
       THEN /\ Exit(1, <<[kind |-> "Usage"]>>)
            /\ UNCHANGED data
       ELSE LET r == load_metrics(fs, filename) IN
            IF r.kind = "return"
            THEN /\ data' = r.value
                 /\ pc' = "loaded"
                 /\ UNCHANGED <<exit_status, log>>
            ELSE IF r.kind = "exit"
            THEN /\ Exit(r.status, r.log)
                 /\ UNCHANGED data
            ELSE LET h == HandleException(r.exc, filename) IN
                 /\ Exit(h.status, h.log)
                 /\ UNCHANGED data
    /\ UNCHANGED <<argv, fs, output, image, locals>>

(* main from the mode detection on: render, save at args.plot_name, exit *)
MainPlot ==
    /\ pc = "loaded"
    /\ LET r == create_analysis_plot(data, plot_name, output) IN
       IF r.kind = "return"
       THEN /\ image' = r.image
            /\ locals' = r.locals
            /\ Exit(NormalExit, <<>>)
       ELSE LET h == HandleException(r.exc, filename) IN
            /\ Exit(h.status, h.log)
            /\ image' = IF "image" \in DOMAIN r THEN r.image ELSE image
            /\ UNCHANGED locals
    /\ UNCHANGED <<argv, fs, output, data>>

Next == MainLoad \/ MainPlot

----------------------------------------------------------------------------
(* Inputs *)

RunName == Str(<<"r", "u", "n">>)

OtherPlotName == Str(<<"o", ".", "p", "n", "g">>)

(* The output paths of the explored runs: the default and a given one *)
PlotNames == {DefaultPlotName, OtherPlotName}

OutputStates ==
    {"writable", "missing_dir", "denied", "full_removed", "full_truncated"}

AllWritable == [p \in PlotNames |-> "writable"]

ArgNames == {<<>>, RunName, RunName \o NPZ}

FileNames == {RunName, RunName \o NPZ, RunName \o NPZ \o NPZ}

(* Node ids "A", "AB", "B" as code points *)
NodeIds == {<<65>>, <<65, 66>>, <<66>>}

NodeCycle == <<<<66>>, <<65>>, <<65, 66>>>>

NodeAt(i) == NodeCycle[(i % 3) + 1]

(* The sample at position i of each stored series *)
Sample(key, i, ups, downs) ==
    CASE key = "transfer_times" -> i * 43200
      [] key = "transfer_types" -> "backup"
      [] key = "transfer_durations" -> 60 * i
      [] key = "uploaders" -> ups[i]
      [] key = "downloaders" -> downs[i]
      [] key = "sim_times" -> i * 3600
      [] key = "sim_uploads" -> (i - 1) % 4
      [] key = "sim_downloads" -> i % 2
      [] key = "bw_times" -> i * 3600
      [] key = "bw_upload_used" -> i % 3
      [] key = "bw_upload_capacity" -> (i + 1) % 3
      [] key = "bw_download_used" -> i % 2
      [] key = "bw_download_capacity" -> (i + 1) % 2

(* A container: the stored arrays by name, without the keys of `missing` *)
Container(par, nodes, end_time, ups, downs, simLen, bwLen, missing) ==
    [key \in AllKeys \ missing |->
        CASE key = "metadata_parallel_enabled" -> <<par>>
          [] key = "metadata_total_nodes" -> <<nodes>>
          [] key = "metadata_simulation_end_time" -> <<end_time>>
          [] key = "metadata_data_loss_events" -> <<1>>
          [] key = "metadata_nodes_with_data_loss" -> <<1>>
          [] key \in TransferKeys -> [i \in 1..Len(ups) |-> Sample(key, i, ups, downs)]
          [] key \in SimKeys -> [i \in 1..simLen |-> Sample(key, i, ups, downs)]
          [] key \in BwKeys -> [i \in 1..bwLen |-> Sample(key, i, ups, downs)]]

(* The fixed container of every file other than run.npz *)
Decoy == Container(0, 5, SecondsPerYear, <<>>, <<>>, 0, 0, OptionalKeys)

Files(present, c) ==
    [f \in present |-> IF f = RunName \o NPZ THEN c ELSE Decoy]

(* The sets of absent keys: one required or transfer series, the whole
   transfer group, or any set of optional series *)
MissingSets ==
    {{k} : k \in MetadataKeys \cup TransferKeys}
        \cup {TransferKeys} \cup SUBSET OptionalKeys

CoreMissing == {{}, {"metadata_total_nodes"}, {"sim_uploads"}, {"uploaders"}}

Start(line, files, w) ==
    /\ argv = line
    /\ fs = files
    /\ output = w
    /\ pc = "start"
    /\ data = NoData
    /\ image = NoImage
    /\ locals = NoLocals
    /\ exit_status = Running
    /\ log = <<>>

(* Every container, loaded by the name without its extension *)
InitContainers ==
    \E par \in {0, 1}, nodes \in {0, 2}, end_time \in {0, SecondsPerYear},
       n \in 0..MaxTransfers, len \in 0..MaxSeries, missing \in MissingSets :
        Start(<<RunName>>,
              Files({RunName \o NPZ},
                    Container(par, nodes, end_time,
                              [i \in 1..n |-> NodeAt(i)],
                              [i \in 1..n |-> NodeAt(i + 1)],
                              len, len, missing)),
              AllWritable)

(* One argument (the empty string included), none, two; the help option in
   its spellings, alone, with an argument and with arguments written to it;
   --plot-name with its value before and after the argument, written with
   "=", abbreviated, without a value, with the help option in the place of
   its value; unknown and ambiguous options; "--" and arguments that start
   with "-" *)
CommandLines ==
    {<<name>> : name \in ArgNames}
        \cup {<<>>,
              <<RunName, RunName \o NPZ>>,
              <<HelpLong>>,
              <<HelpShort, RunName>>,
              <<RunName, HelpLong>>,
              <<Str(<<"-", "-", "h", "e">>)>>,
              <<Str(<<"-", "-", "h">>), RunName>>,
              <<Str(<<"-", "h", "h">>)>>,
              <<Str(<<"-", "h", "x">>), RunName>>,
              <<HelpLong \o Str(<<"=", "x">>), RunName>>,
              <<Str(<<"-", "-", "b", "o", "g", "u", "s">>), HelpLong>>,
              <<Str(<<"-", "-", "b", "o", "g", "u", "s">>), RunName>>,
              <<Str(<<"-", "x">>), RunName>>,
              <<HelpLong, Str(<<"-", "-", "=", "x">>)>>,
              <<PlotNameOption, OtherPlotName, RunName>>,
              <<RunName, PlotNameOption, OtherPlotName>>,
              <<PlotNameOption, DefaultPlotName, RunName>>,
              <<PlotNameOption \o Str(<<"=">>) \o OtherPlotName, RunName>>,
              <<Str(<<"-", "-", "p">>), OtherPlotName, RunName \o NPZ>>,
              <<Str(<<"-", "-", "p", "l", "o", "t", "=">>) \o OtherPlotName, RunName>>,
              <<PlotNameOption, RunName>>,
              <<RunName, PlotNameOption>>,
              <<PlotNameOption, HelpLong>>,
              <<PlotNameOption, OtherPlotName, HelpShort>>,
              <<PlotNameOption, OtherPlotName, RunName, RunName>>,
              <<DoubleDash, RunName>>,
              <<RunName, DoubleDash>>,
              <<DoubleDash, HelpLong>>,
              <<PlotNameOption, OtherPlotName, DoubleDash, RunName>>,
              <<PlotNameOption, DoubleDash, RunName>>,
              <<DoubleDash, RunName, PlotNameOption, OtherPlotName>>,
              <<Str(<<"-", "1">>)>>,
              <<Str(<<"-", "1", "\n">>)>>,
              <<Str(<<"-", ".", "5", "\n">>), RunName>>,
              <<<<Dash, 1635>>>>,
              <<PlotNameOption, Str(<<"-", "1", "\n">>), RunName>>}

(* One output path in each state, the other writable *)
Outputs ==
    {[p \in PlotNames |-> IF p = target THEN w ELSE "writable"] :
        target \in PlotNames, w \in OutputStates}

(* Every command line, set of existing files and output state, on a few
   containers *)
InitScenarios ==
    \E line \in CommandLines, present \in SUBSET FileNames, outs \in Outputs,
       par \in {0, 1}, n \in {0, MaxTransfers}, missing \in CoreMissing :
        Start(line,
              Files(present,
                    Container(par, 2, SecondsPerYear,
                              [i \in 1..n |-> NodeAt(i)],
                              [i \in 1..n |-> NodeAt(i + 1)],
                              MaxSeries, MaxSeries, missing)),
              outs)

Init == InitContainers \/ InitScenarios

Spec == Init /\ [][Next]_vars

(* Per-node counting: every transfer list over the node ids *)
InitNodes ==
    \E par \in {0, 1}, n \in 0..MaxTransfers :
        \E ups \in [1..n -> NodeIds], downs \in [1..n -> NodeIds] :
            Start(<<RunName>>,
                  Files({RunName \o NPZ},
                        Container(par, 2, SecondsPerYear, ups, downs, 1, 1, {})),
                  AllWritable)

SpecNodes == InitNodes /\ [][Next]_vars

(* Down-sampling: series lengths around the multiples of a target count *)
SampleLens(target) ==
    {1} \cup {k * target + d : k \in 1..MaxStride, d \in {-1, 0, 1}}

InitSample ==
    \E n \in {1},
       simLen \in SampleLens(StatsTarget) \cup SampleLens(OverlayTarget),
       bwLen \in SampleLens(StatsTarget) :
        Start(<<RunName>>,
              Files({RunName \o NPZ},
                    Container(1, 2, SecondsPerYear,
                              [i \in 1..n |-> NodeAt(i)],
                              [i \in 1..n |-> NodeAt(i + 1)],
                              simLen, bwLen, {})),
              AllWritable)

SpecSample == InitSample /\ [][Next]_vars

----------------------------------------------------------------------------
(* Properties *)

Exited == pc = "exited"

Loaded == data # NoData

(* A complete image file was written *)
Written == image.kind = "Image"

(* What saving at args.plot_name meets *)
OutputState ==
    IF plot_name.value \in DOMAIN output THEN output[plot_name.value]
    ELSE "writable"

(* L1: the inputs name a file under neither the given nor the extended name *)
NoSuchFile ==
    /\ filename # <<>>
    /\ filename \notin DOMAIN fs
    /\ (filename \o NPZ) \notin DOMAIN fs

(* The arrays of the file the loader reads: the literal name first *)
InputArrays ==
    IF filename \in DOMAIN fs THEN fs[filename] ELSE fs[filename \o NPZ]

InputFound ==
    /\ filename # <<>>
    /\ \/ filename \in DOMAIN fs
       \/ ~EndsWith(filename, NPZ) /\ (filename \o NPZ) \in DOMAIN fs

(* The claims' condition for the concurrency overlay and statistics *)
ParallelSeriesPresent ==
    /\ data.metadata.parallel_enabled
    /\ "sim_times" \in DOMAIN data.raw_data.arrays
    /\ Len(data.raw_data.arrays["sim_times"]) > 0

(* The parser ended the run after printing the help text *)
HelpPrinted == ParseArgs(argv) = SysExit(0, <<>>)

(* C1 as stated: every run of main ends either with exit status 0 and the
   image written at the output path, or with a non-zero exit status and no
   image written; never with the image and a non-zero status, never with
   status 0 and no image. *)
C1_ExitStatusMatchesImage ==
    /\ ~Exited => exit_status = Running /\ image = NoImage
    /\ Exited => \/ /\ exit_status = 0
                    /\ Written
                    /\ PyStr(image.path) = plot_name
                 \/ /\ exit_status \notin {0, Running}
                    /\ ~Written

(* C1 amended: a run of main ends with exit status 0 and the image written
   at args.plot_name, or with a non-zero exit status and no image written,
   or, when the parser printed the help text (a help option met before any
   error of the command line), with exit status 0 and nothing written.  With
   a non-zero status no file at all is left, except for the truncated file
   of a save that failed while writing. *)
C1_ExitStatusMatchesImageOrHelp ==
    /\ ~Exited => exit_status = Running /\ image = NoImage
    /\ Exited => \/ /\ exit_status = 0
                    /\ Written
                    /\ PyStr(image.path) = plot_name
                    /\ ParseArgs(argv).kind = "return"
                 \/ /\ exit_status \notin {0, Running}
                    /\ ~Written
                    /\ image # NoImage =>
                          /\ Loaded
                          /\ OutputState = "full_truncated"
                          /\ image = Truncated(plot_name.value)
                    /\ ParseArgs(argv).kind = "exit" => exit_status = 2
                 \/ /\ exit_status = 0
                    /\ image = NoImage
                    /\ ~Loaded
                    /\ HelpPrinted

(* C1 witness: --plot-name names a path in a directory that does not exist;
   the load succeeded, the save failed, the run ended with status 1 and no
   file *)
C1_Witness ==
    /\ Exited
    /\ Loaded
    /\ plot_name = PyStr(OtherPlotName)
    /\ OutputState = "missing_dir"
    /\ exit_status = 1
    /\ image = NoImage

(* C2: when neither the given name nor the name with ".npz" appended exists,
   the run does not get past the load, and ends with a not-found error, exit
   status 1 (through sys.exit, caught by no handler) and no image. *)
C2_NotFoundExits ==
    NoSuchFile =>
        /\ pc # "loaded"
        /\ ~Loaded
        /\ Exited =>
            /\ exit_status = 1
            /\ ~Written
            /\ Len(log) = 1
            /\ log[1].kind = "NotFound"

(* C2 witness: a name that already ends in ".npz", not found, run ended *)
C2_Witness ==
    /\ Exited
    /\ NoSuchFile
    /\ EndsWith(filename, NPZ)
    /\ exit_status = 1

(* C3: for a name X not ending in ".npz" with only X.npz existing, loading X
   ends exactly as loading X.npz does, and the record is the one of X.npz;
   a file named exactly as given is always the one loaded. *)
C3_ExtensionInference ==
    /\ (/\ filename # <<>>
        /\ ~EndsWith(filename, NPZ)
        /\ filename \notin DOMAIN fs
        /\ (filename \o NPZ) \in DOMAIN fs) =>
            /\ load_metrics(fs, filename) = load_metrics(fs, filename \o NPZ)
            /\ pc = "loaded" =>
                /\ data.raw_data.file = filename \o NPZ
                /\ data.raw_data.arrays = fs[filename \o NPZ]
                /\ Return(data) = load_metrics(fs, filename \o NPZ)
    /\ (filename \in DOMAIN fs /\ Loaded) =>
            /\ data.raw_data.file = filename
            /\ data.raw_data.arrays = fs[filename]

(* C3 witness: "run" was asked for, only "run.npz" exists, and it is loaded *)
C3_Witness ==
    /\ pc = "loaded"
    /\ filename = RunName
    /\ DOMAIN fs = {RunName \o NPZ}
    /\ data.raw_data.file = RunName \o NPZ

(* C4: with the required metadata present (the load succeeded) and a writable
   output, the run succeeds and writes the image whichever optional
   independent series are absent, in parallel and in single mode. *)
C4_OptionalAbsenceTolerated ==
    (Exited /\ Loaded /\ OutputState = "writable") => (exit_status = 0 /\ Written)

(* C5: with any single one of the five transfer series absent the loader
   does not fail and transfer_completions is empty; with all five present,
   of length L, transfer_completions has L tuples, tuple i from index i of
   each series. *)
C5_TransferSeriesAbsence ==
    (pc # "start" /\ InputFound /\ MetadataKeys \subseteq DOMAIN InputArrays) =>
        LET a == InputArrays IN
        /\ Cardinality(TransferKeys \ DOMAIN a) = 1 =>
            /\ Loaded
            /\ data.metrics.transfer_completions = <<>>
        /\ TransferKeys \subseteq DOMAIN a =>
            /\ Loaded
            /\ Len(data.metrics.transfer_completions) = Len(a["transfer_times"])
            /\ \A i \in 1..Len(a["transfer_times"]) :
                data.metrics.transfer_completions[i] =
                    <<Float(a["transfer_times"][i]), a["transfer_types"][i],
                      Float(a["transfer_durations"][i]), a["uploaders"][i],
                      a["downloaders"][i]>>

RECURSIVE SumSeq(_)
SumSeq(q) == IF q = <<>> THEN 0 ELSE Head(q) + SumSeq(Tail(q))

(* The record with its transfers reordered by the permutation p *)
Reordered(d, p) ==
    [d EXCEPT !.metrics.transfer_completions =
        [i \in 1..Len(@) |-> @[p[i]]]]

(* C6: the nodes of panel 2 are the lexically sorted, duplicate-free union of
   the uploader and downloader ids; uploads[i] / downloads[i] count the
   transfers with nodes[i] in that role; the result does not depend on the
   order of the transfers; both count arrays sum to the number of transfers. *)
C6_PerNodeCounts ==
    Written =>
        LET tc == data.metrics.transfer_completions
            p == image.panel2
            n == Len(p.nodes)
        IN  /\ {p.nodes[i] : i \in 1..n} =
                   {tc[j][4] : j \in 1..Len(tc)} \cup {tc[j][5] : j \in 1..Len(tc)}
            /\ \A i \in 1..(n - 1) : StrLess(p.nodes[i], p.nodes[i + 1])
            /\ Len(p.uploads) = n /\ Len(p.downloads) = n
            /\ \A i \in 1..n :
                /\ p.uploads[i] =
                       Cardinality({j \in 1..Len(tc) : tc[j][4] = p.nodes[i]})
                /\ p.downloads[i] =
                       Cardinality({j \in 1..Len(tc) : tc[j][5] = p.nodes[i]})
            /\ SumSeq(p.uploads) = Len(tc)
            /\ SumSeq(p.downloads) = Len(tc)
            /\ \A perm \in Permutations(1..Len(tc)) :
                   PerNode(Reordered(data, perm)) = p

(* C6 witness: transfers A->B, B->A, A->AB drawn as nodes [A, AB, B],
   uploads [2, 0, 1], downloads [1, 1, 1] *)
C6_Witness ==
    /\ Written
    /\ Len(data.metrics.transfer_completions) = 3
    /\ image.panel2 = [nodes |-> <<<<65>>, <<65, 66>>, <<66>>>>,
                       uploads |-> <<2, 0, 1>>,
                       downloads |-> <<1, 1, 1>>]

(* C7: the statistics text of panel 3 holds the six base figures for every
   record and, when the record is parallel mode with a non-empty sim_times
   series, the max and mean concurrent-transfer counts as well. *)
C7_StatsTextHasConcurrency ==
    Written =>
        /\ {"total_transfers", "simulation_time", "total_nodes",
            "avg_transfers_per_node", "transfers_per_year",
            "data_loss_events"} \subseteq DOMAIN image.panel3
        /\ ParallelSeriesPresent =>
            {"max_concurrent", "avg_concurrent"} \subseteq DOMAIN image.panel3

(* C8: no run ends in a division error; in a rendered figure the average
   transfers per node is 0 when total_nodes <= 0, the transfers per year are
   0 when the duration is <= 0, and the bandwidth utilizations are finite
   (no capacity sample divides by zero). *)
C8_DivisionGuards ==
    /\ \A i \in 1..Len(log) :
           ~(log[i].kind = "Unexpected" /\ log[i].exc = "ZeroDivisionError")
    /\ Written =>
        /\ data.metadata.total_nodes <= 0 =>
            /\ locals.avg_transfers_per_node = Float(0)
            /\ image.panel3.avg_transfers_per_node = Float(0)
        /\ data.metadata.simulation_end_time.num <= 0 =>
            /\ locals.transfers_per_year = Float(0)
            /\ image.panel3.transfers_per_year = Float(0)
        /\ locals.avg_upload_util.den # 0
        /\ locals.avg_download_util.den # 0

(* C8 witness: a rendered record with transfers, zero nodes, zero duration
   and a bandwidth sample of capacity zero *)
C8_Witness ==
    /\ Written
    /\ data.metadata.total_nodes = 0
    /\ data.metadata.simulation_end_time.num = 0
    /\ Len(data.metrics.transfer_completions) > 0
    /\ "bw_times" \in DOMAIN data.raw_data.arrays
    /\ \E j \in 1..Len(data.raw_data.arrays["bw_upload_capacity"]) :
           data.raw_data.arrays["bw_upload_capacity"][j] = 0

(* C9: in every rendered figure, also for an empty transfer list, panel 1 is
   drawn with a title reporting the total transfer count, and the overlay is
   included exactly when parallel_enabled holds and sim_times is present and
   non-empty. *)
C9_OverlayDependsOnModeOnly ==
    Written =>
        /\ image.panel1.drawn
        /\ image.panel1.title.total = Len(data.metrics.transfer_completions)
        /\ image.panel1.overlay.drawn <=> ParallelSeriesPresent

(* The Python indices 0, k, 2k, ... < n the claim selects, k = max(1, n // t) *)
StrideOf(n, t) == IF n \div t >= 1 THEN n \div t ELSE 1

Selected(n, t) == {i \in 0..(n - 1) : i % StrideOf(n, t) = 0}

(* The samples of s at the selected indices, in their original order *)
Pick(s, t) ==
    [j \in 1..Cardinality(Selected(Len(s), t)) |->
        s[(j - 1) * StrideOf(Len(s), t) + 1]]

(* C10: a present, non-empty series of length L is down-sampled to the
   samples at indices 0, k, 2k, ... < L with k = max(1, L // T), T = 2000 for
   the overlay and 1000 for the statistics, the same indices for every series
   of the group; for L <= T every sample is kept. *)
C10_Downsampling ==
    Written =>
        LET raw == data.raw_data.arrays
            o == image.panel1.overlay
            times == Pick(raw["sim_times"], OverlayTarget)
            up2000 == Pick(raw["sim_uploads"], OverlayTarget)
            down2000 == Pick(raw["sim_downloads"], OverlayTarget)
            up == Pick(raw["sim_uploads"], StatsTarget)
            down == Pick(raw["sim_downloads"], StatsTarget)
            sums == {up[j] + down[j] : j \in 1..Len(up)}
        IN  /\ o.drawn =>
                /\ o.x = [j \in 1..Len(times) |-> Frac(times[j], SecondsPerDay)]
                /\ o.y = [j \in 1..Len(times) |-> up2000[j] + down2000[j]]
                /\ Len(raw["sim_times"]) <= OverlayTarget =>
                       Len(o.y) = Len(raw["sim_times"])
            /\ ParallelSeriesPresent =>
                /\ locals.concurrent_stats.max_concurrent \in sums
                /\ \A v \in sums : v <= locals.concurrent_stats.max_concurrent
                /\ locals.concurrent_stats.avg_concurrent =
                       NpMean([j \in 1..Len(up) |-> Float(up[j] + down[j])])
            /\ locals.avg_upload_util =
                   Utilization(Pick(raw["bw_upload_used"], StatsTarget),
                               Pick(raw["bw_upload_capacity"], StatsTarget))
            /\ locals.avg_download_util =
                   Utilization(Pick(raw["bw_download_used"], StatsTarget),
                               Pick(raw["bw_download_capacity"], StatsTarget))

(* C10 witness: an overlay drawn from 2 * 2000 + 1 samples with stride 2, and
   bandwidth statistics over at least 2 * 1000 samples *)
C10_Witness ==
    /\ Written
    /\ image.panel1.overlay.drawn
    /\ Len(data.raw_data.arrays["sim_times"]) = 2 * OverlayTarget + 1
    /\ Len(image.panel1.overlay.y) = OverlayTarget + 1
    /\ Len(data.raw_data.arrays["bw_times"]) >= 2 * StatsTarget

====
